---- MODULE Spec2Model ----
(***************************************************************************)
(* Refresh orchestration of the pennystocks dashboard.                     *)
(*                                                                         *)
(* Processes modelled:                                                     *)
(*   - the Flask process app.py: the status record refresh_status, the     *)
(*     ThreadPoolExecutor(max_workers=1) with its work queue and single    *)
(*     worker thread running run_reddit_scraper, the APScheduler job       *)
(*     scheduled_scraper_job, init_scheduler and the HTTP handlers;        *)
(*   - update_data.py, one process per launcher (the app worker, or an     *)
(*     external launcher: scheduler.py's run_scraper or a direct/cron      *)
(*     invocation of update_data.py);                                      *)
(*   - reddit_scrapper.py, one process per pipeline run, which outlives a  *)
(*     SIGKILLed update_data.py parent;                                    *)
(*   - the files lounge_thread_filtered_comments.json, its timestamped     *)
(*     backups and data_metadata.json.                                     *)
(***************************************************************************)
EXTENDS Integers, Sequences, FiniteSets, TLC

VARIABLES
    refresh_status,   \* app.py: the global status record
    queue,            \* app.py: work items waiting in the executor
    worker,           \* app.py: the executor's single worker thread
    scheduler_running,\* app.py: scheduler.running (init_scheduler has run)
    nsubmit,          \* number of executor.submit calls so far
    http,             \* app.py: the HTTP request being handled
    resp,             \* the last HTTP response sent
    launcher,         \* the external launcher of update_data.py
    nlaunch,          \* number of external launches so far
    ud,               \* update_data.py processes, one per launcher
    sc,               \* reddit_scrapper.py processes, one per pipeline run
    nruns,            \* pipeline runs (update_data.py executions) started
    data_file,        \* lounge_thread_filtered_comments.json
    backups,          \* <data_file>.backup_<timestamp>, one name per run
    metadata,         \* data_metadata.json
    call              \* a function of the pipeline under evaluation: its
                      \* arguments, its position and what it has returned

vars == <<refresh_status, queue, worker, scheduler_running, nsubmit, http, resp,
          launcher, nlaunch, ud, sc, nruns, data_file, backups, metadata, call>>

appVars == <<refresh_status, queue, worker, scheduler_running, nsubmit>>
httpVars == <<http, resp>>
fsVars == <<data_file, backups, metadata>>

-----------------------------------------------------------------------------
(* Bounds *)

\* Triggers accepted in total: executor.submit calls plus external launches.
MaxRuns == 2

Runs == 1..MaxRuns

\* Python's None, for the string-valued fields.
None == "None"

-----------------------------------------------------------------------------
(* Timeouts *)

APP_TIMEOUT == 1800
UD_TIMEOUT == 1800
SCHED_TIMEOUT == 1800

-----------------------------------------------------------------------------
(* Files *)

\* A corpus is the sequence of the records' tickers fields ("" = no ticker).
Corpora == { <<>>, <<"ABC, XYZ", "">> }

NoFile == [exists |-> FALSE, writer |-> 0, corpus |-> <<>>, complete |-> FALSE]

\* A snapshot written completely by run w (run 0: present before any run).
Snapshot(w, c) == [exists |-> TRUE, writer |-> w, corpus |-> c, complete |-> TRUE]

\* A file opened with mode 'w' (truncated) whose json.dump has not finished:
\* not parsable as JSON.
Partial(w) == [exists |-> TRUE, writer |-> w, corpus |-> <<>>, complete |-> FALSE]

NoMetadata == [exists |-> FALSE, run |-> 0, success |-> FALSE, error_message |-> None,
               counts |-> <<>>]

-----------------------------------------------------------------------------
(* update_data.py: helpers *)

\* len([c for c in data if c.get('tickers')])
comments_with_tickers(c) == Cardinality({i \in 1..Len(c) : c[i] # ""})

\* create_backup(filename) of run r: the backup name returned (0 for None), and
\* the target and backup files afterwards. renameOk: os.rename succeeds.
create_backup(r, file, renameOk) ==
    IF file.exists /\ renameOk
        THEN [backup_file |-> r, data |-> NoFile, backup |-> file]
        ELSE [backup_file |-> 0, data |-> file, backup |-> NoFile]

\* save_metadata(data_file, start, end, success, error_msg): the record
\* written to data_metadata.json. The counts are added only when success is
\* set and the data file exists and parses (except: pass otherwise).
save_metadata(r, file, success, error_msg) ==
    [exists |-> TRUE, run |-> r, success |-> success, error_message |-> error_msg,
     counts |-> IF success /\ file.exists /\ file.complete
                    THEN <<Len(file.corpus), comments_with_tickers(file.corpus)>>
                    ELSE <<>>]

\* "if backup_file and os.path.exists(backup_file): os.rename(backup_file,
\* data_file)": the target file afterwards.
restore_backup(bf, file, bks) ==
    IF bf # 0 /\ bks[bf].exists THEN bks[bf] ELSE file

\* The backup files after the rename or the os.remove of backup bf.
drop_backup(bf, bks) ==
    IF bf # 0 /\ bks[bf].exists THEN [bks EXCEPT ![bf] = NoFile] ELSE bks

-----------------------------------------------------------------------------
(* Processes *)

Launchers == {"app", "ext"}

UdNone == [pc |-> "none", run |-> 0, backup_file |-> 0, orig |-> NoFile,
           rc |-> 0, branch |-> "none"]

ScNone == [pc |-> "none", orphan |-> FALSE, rc |-> 0, corpus |-> <<>>]

\* The launcher of update_data.py in slot l waits for it with a timeout:
\* app.py run_reddit_scraper and scheduler.py run_scraper do, a direct (cron)
\* invocation does not.
Supervised(l) == l = "app" \/ launcher = "sched"

SupervisorTimeout(l) == IF l = "app" THEN APP_TIMEOUT ELSE SCHED_TIMEOUT

\* update_data.py starts its own timer after its launcher started the
\* launcher's: it expires first only if it is strictly shorter.
ud_timeout_first(l) == ~Supervised(l) \/ UD_TIMEOUT < SupervisorTimeout(l)

\* sys.executable update_data.py: main() calls run_reddit_scraper().
ud_start(r) == [UdNone EXCEPT !.pc = "l80", !.run = r]

\* The launcher's subprocess.run hits its timeout, which takes a scraper that
\* is still running after 1800 s: process.kill() ends update_data.py only, and
\* its child reddit_scrapper.py is left running. The dead process's record is
\* kept until the launcher's handler has run.
kill_update_data(l) ==
    /\ ud[l].pc = "wait"
    /\ sc[ud[l].run].pc \in {"collect", "write"}
    /\ ud' = [ud EXCEPT ![l].pc = "killed"]
    /\ sc' = [sc EXCEPT ![ud[l].run].orphan = TRUE]

-----------------------------------------------------------------------------
(* update_data.py run_reddit_scraper, process of launcher l *)

\* The process at exit: main returns 0 if run_reddit_scraper returned True.
ud_exit(u, branch) ==
    [u EXCEPT !.pc = "exit", !.branch = branch,
              !.rc = IF branch = "success" THEN 0 ELSE 1]

\* lines 80-86: create the backup, then start reddit_scrapper.py with a
\* 1800 s timeout. spawnOk = FALSE: subprocess.run raises (OSError), and the
\* handler of lines 139-144 saves the failure metadata and returns False
\* without restoring the backup.
UdBegin(l) ==
    /\ ud[l].pc = "l80"
    /\ \E renameOk \in BOOLEAN, spawnOk \in BOOLEAN :
        LET b == create_backup(ud[l].run, data_file, renameOk)
            u == [ud[l] EXCEPT !.backup_file = b.backup_file, !.orig = data_file]
        IN
        /\ data_file' = b.data
        /\ backups' = IF b.backup_file # 0
                          THEN [backups EXCEPT ![b.backup_file] = b.backup]
                          ELSE backups
        /\ IF spawnOk
              THEN /\ ud' = [ud EXCEPT ![l] = [u EXCEPT !.pc = "wait"]]
                   /\ sc' = [sc EXCEPT ![u.run] = [ScNone EXCEPT !.pc = "collect"]]
                   /\ metadata' = metadata
              ELSE /\ ud' = [ud EXCEPT ![l] = ud_exit(u, "exception")]
                   /\ sc' = sc
                   /\ metadata' = save_metadata(u.run, b.data, FALSE, "Unexpected error")
    /\ UNCHANGED <<call, appVars, httpVars, launcher, nlaunch, nruns>>

\* lines 91-113: the child exited with code 0. If the data file exists: save
\* the success metadata, remove the backup, return True. Else save the
\* failure metadata and return False; the backup is not restored.
UdScraperOk(l) ==
    /\ ud[l].pc = "wait"
    /\ sc[ud[l].run].pc = "exit"
    /\ sc[ud[l].run].rc = 0
    /\ sc' = [sc EXCEPT ![ud[l].run] = ScNone]
    /\ IF data_file.exists
          THEN /\ metadata' = save_metadata(ud[l].run, data_file, TRUE, None)
               /\ backups' = drop_backup(ud[l].backup_file, backups)
               /\ ud' = [ud EXCEPT ![l] = ud_exit(ud[l], "success")]
          ELSE /\ metadata' = save_metadata(ud[l].run, data_file, FALSE,
                                            "Data file was not created")
               /\ backups' = backups
               /\ ud' = [ud EXCEPT ![l] = ud_exit(ud[l], "not_created")]
    /\ UNCHANGED <<call, appVars, httpVars, launcher, nlaunch, nruns, data_file>>

\* lines 114-124: the child exited with a non-zero code: save the failure
\* metadata, restore the backup, return False.
UdScraperFailed(l) ==
    /\ ud[l].pc = "wait"
    /\ sc[ud[l].run].pc = "exit"
    /\ sc[ud[l].run].rc # 0
    /\ sc' = [sc EXCEPT ![ud[l].run] = ScNone]
    /\ metadata' = save_metadata(ud[l].run, data_file, FALSE,
                                 "Scraper failed with return code")
    /\ data_file' = restore_backup(ud[l].backup_file, data_file, backups)
    /\ backups' = drop_backup(ud[l].backup_file, backups)
    /\ ud' = [ud EXCEPT ![l] = ud_exit(ud[l], "scraper_failed")]
    /\ UNCHANGED <<call, appVars, httpVars, launcher, nlaunch, nruns>>

\* lines 126-137: subprocess.TimeoutExpired (subprocess.run has killed the
\* child): save the failure metadata, restore the backup, return False.
UdTimeout(l) ==
    /\ ud[l].pc = "wait"
    /\ sc[ud[l].run].pc \in {"collect", "write"}
    /\ ud_timeout_first(l)
    /\ sc' = [sc EXCEPT ![ud[l].run] = ScNone]
    /\ metadata' = save_metadata(ud[l].run, data_file, FALSE,
                                 "Scraper timed out after 30 minutes")
    /\ data_file' = restore_backup(ud[l].backup_file, data_file, backups)
    /\ backups' = drop_backup(ud[l].backup_file, backups)
    /\ ud' = [ud EXCEPT ![l] = ud_exit(ud[l], "timeout")]
    /\ UNCHANGED <<call, appVars, httpVars, launcher, nlaunch, nruns>>

-----------------------------------------------------------------------------
(* reddit_scrapper.py main, process of pipeline run r *)

\* The file that process r has open for writing is still at the target path.
writing_target(r) == data_file = Partial(r)

\* The process ends with exit code rc. An orphan is not waited for.
sc_exit(p, rc) == IF p.orphan THEN ScNone ELSE [p EXCEPT !.pc = "exit", !.rc = rc]

\* lines 460-489: no lounge thread found, or no comment kept: nothing is
\* written and main returns (exit code 0). Otherwise save_to_json opens the
\* target with mode 'w', which truncates it.
ScMain(r) ==
    /\ sc[r].pc = "collect"
    /\ \E found \in BOOLEAN, c \in Corpora :
        IF found /\ c # <<>>
            THEN /\ data_file' = Partial(r)
                 /\ sc' = [sc EXCEPT ![r].pc = "write", ![r].corpus = c]
            ELSE /\ data_file' = data_file
                 /\ sc' = [sc EXCEPT ![r] = sc_exit(sc[r], 0)]
    /\ UNCHANGED <<call, appVars, httpVars, launcher, nlaunch, ud, nruns, backups, metadata>>

\* An uncaught exception while collecting (the API raises): exit code 1.
ScCrash(r) ==
    /\ sc[r].pc = "collect"
    /\ sc' = [sc EXCEPT ![r] = sc_exit(sc[r], 1)]
    /\ UNCHANGED <<call, appVars, httpVars, launcher, nlaunch, ud, nruns, fsVars>>

\* save_to_json lines 434-436: json.dump completes. The bytes go to the file
\* the process opened, which another run's create_backup may have renamed.
ScWriteDone(r) ==
    /\ sc[r].pc = "write"
    /\ data_file' = IF writing_target(r) THEN Snapshot(r, sc[r].corpus) ELSE data_file
    /\ backups' = [b \in Runs |-> IF backups[b] = Partial(r)
                                     THEN Snapshot(r, sc[r].corpus) ELSE backups[b]]
    /\ sc' = [sc EXCEPT ![r] = sc_exit(sc[r], 0)]
    /\ UNCHANGED <<call, appVars, httpVars, launcher, nlaunch, ud, nruns, metadata>>

\* save_to_json raises while writing (an I/O error): exit code 1, the file is
\* left truncated.
ScWriteError(r) ==
    /\ sc[r].pc = "write"
    /\ sc' = [sc EXCEPT ![r] = sc_exit(sc[r], 1)]
    /\ UNCHANGED <<call, appVars, httpVars, launcher, nlaunch, ud, nruns, fsVars>>

-----------------------------------------------------------------------------
(* External launchers: scheduler.py, and update_data.py run directly *)

\* Triggers are accepted while fewer than MaxRuns have been.
Budget == nsubmit + nlaunch < MaxRuns

\* scheduler.py run_scraper lines 29-31: the interval job starts update_data.py.
run_scraper ==
    /\ launcher = "none"
    /\ Budget
    /\ launcher' = "sched"
    /\ nlaunch' = nlaunch + 1
    /\ nruns' = nruns + 1
    /\ ud' = [ud EXCEPT !["ext"] = ud_start(nruns + 1)]
    /\ UNCHANGED <<call, appVars, httpVars, sc, fsVars>>

\* scheduler.py lines 33-36: update_data.py has exited; the result is logged.
run_scraper_done ==
    /\ launcher = "sched"
    /\ ud["ext"].pc = "exit"
    /\ launcher' = "none"
    /\ ud' = [ud EXCEPT !["ext"] = UdNone]
    /\ UNCHANGED <<call, appVars, httpVars, nlaunch, sc, nruns, fsVars>>

\* scheduler.py line 31: subprocess.TimeoutExpired after 1800 s.
run_scraper_timeout ==
    /\ launcher = "sched"
    /\ kill_update_data("ext")
    /\ launcher' = "sched_timeout"
    /\ UNCHANGED <<call, appVars, httpVars, nlaunch, nruns, fsVars>>

\* scheduler.py lines 38-39: the timeout is logged.
run_scraper_timeout_logged ==
    /\ launcher = "sched_timeout"
    /\ launcher' = "none"
    /\ ud' = [ud EXCEPT !["ext"] = UdNone]
    /\ UNCHANGED <<call, appVars, httpVars, nlaunch, sc, nruns, fsVars>>

\* update_data.py lines 171-172 run from a shell or cron: exit(main()).
update_data_main ==
    /\ launcher = "none"
    /\ Budget
    /\ launcher' = "cron"
    /\ nlaunch' = nlaunch + 1
    /\ nruns' = nruns + 1
    /\ ud' = [ud EXCEPT !["ext"] = ud_start(nruns + 1)]
    /\ UNCHANGED <<call, appVars, httpVars, sc, fsVars>>

\* The process started from the shell has exited.
update_data_exit ==
    /\ launcher = "cron"
    /\ ud["ext"].pc = "exit"
    /\ launcher' = "none"
    /\ ud' = [ud EXCEPT !["ext"] = UdNone]
    /\ UNCHANGED <<call, appVars, httpVars, nlaunch, sc, nruns, fsVars>>

-----------------------------------------------------------------------------
(* app.py: the status record and the executor *)

\* lines 36-41; last_refresh 0 stands for None, a run number for its time.
refresh_status_init ==
    [is_running |-> FALSE, last_refresh |-> 0, last_error |-> None, progress |-> 0]

WorkerIdle == [pc |-> "idle", run |-> 0, rc |-> 0, ret |-> "none"]

\* A guard that never finds a run in progress.
never_running(st) == FALSE

\* The guard of refresh_data (line 280) and scheduled_scraper_job (line 246).
already_running(st) == st.is_running

\* executor.submit(run_reddit_scraper): the work item is queued; the single
\* worker thread runs the items one after another.
submit ==
    /\ Budget
    /\ queue' = queue + 1
    /\ nsubmit' = nsubmit + 1

\* A finally block that leaves the flag as it finds it.
finally_keeps_running(st) == st

\* finally: lines 240 and 241, two separate assignments.
finally_is_running(st) == [st EXCEPT !.is_running = FALSE]
finally_progress(st) == [st EXCEPT !.progress = 0]

\* lines 213-222: validate the output file. TRUE: return True; FALSE: an
\* exception is raised (file missing, json.load fails, or no comments).
output_file_valid(file) ==
    /\ file.exists
    /\ file.complete
    /\ Len(file.corpus) > 0

-----------------------------------------------------------------------------
(* app.py run_reddit_scraper, on the executor's worker thread *)

\* The worker thread takes the next work item and enters run_reddit_scraper.
WorkerTake ==
    /\ worker.pc = "idle"
    /\ queue > 0
    /\ queue' = queue - 1
    /\ worker' = [WorkerIdle EXCEPT !.pc = "l191"]
    /\ UNCHANGED <<call, refresh_status, scheduler_running, nsubmit, httpVars, launcher,
                   nlaunch, ud, sc, nruns, fsVars>>

\* lines 191-198: the four assignments before the subprocess starts.
WorkerBegin ==
    /\ worker.pc \in {"l191", "l192", "l193", "l198"}
    /\ refresh_status' =
          CASE worker.pc = "l191" -> [refresh_status EXCEPT !.is_running = TRUE]
            [] worker.pc = "l192" -> [refresh_status EXCEPT !.progress = 10]
            [] worker.pc = "l193" -> [refresh_status EXCEPT !.last_error = None]
            [] OTHER -> [refresh_status EXCEPT !.progress = 25]
    /\ worker' = [worker EXCEPT !.pc = CASE worker.pc = "l191" -> "l192"
                                         [] worker.pc = "l192" -> "l193"
                                         [] worker.pc = "l193" -> "l198"
                                         [] OTHER -> "l201"]
    /\ UNCHANGED <<call, queue, scheduler_running, nsubmit, httpVars, launcher, nlaunch,
                   ud, sc, nruns, fsVars>>

\* line 201: subprocess.run([sys.executable, 'update_data.py'], timeout=1800)
\* starts the child, or raises (OSError) and control reaches line 234.
WorkerSpawn ==
    /\ worker.pc = "l201"
    /\ \/ /\ worker' = [worker EXCEPT !.pc = "wait", !.run = nruns + 1]
          /\ ud' = [ud EXCEPT !["app"] = ud_start(nruns + 1)]
          /\ nruns' = nruns + 1
       \/ /\ worker' = [worker EXCEPT !.pc = "l234"]
          /\ UNCHANGED <<ud, nruns>>
    /\ UNCHANGED <<call, refresh_status, queue, scheduler_running, nsubmit, httpVars,
                   launcher, nlaunch, sc, fsVars>>

\* lines 201-203: update_data.py has exited.
WorkerReap ==
    /\ worker.pc = "wait"
    /\ ud["app"].pc = "exit"
    /\ worker' = [worker EXCEPT !.pc = "l205", !.rc = ud["app"].rc]
    /\ ud' = [ud EXCEPT !["app"] = UdNone]
    /\ UNCHANGED <<call, refresh_status, queue, scheduler_running, nsubmit, httpVars,
                   launcher, nlaunch, sc, nruns, fsVars>>

\* line 229: subprocess.TimeoutExpired after 1800 s.
WorkerTimeout ==
    /\ worker.pc = "wait"
    /\ kill_update_data("app")
    /\ worker' = [worker EXCEPT !.pc = "l229"]
    /\ UNCHANGED <<call, refresh_status, queue, scheduler_running, nsubmit, httpVars,
                   launcher, nlaunch, nruns, fsVars>>

\* lines 205-210: progress 80, then on returncode 0 progress 100 and
\* last_refresh.
WorkerProgress ==
    /\ worker.pc \in {"l205", "l209", "l210"}
    /\ refresh_status' =
          CASE worker.pc = "l205" -> [refresh_status EXCEPT !.progress = 80]
            [] worker.pc = "l209" -> [refresh_status EXCEPT !.progress = 100]
            [] OTHER -> [refresh_status EXCEPT !.last_refresh = worker.run]
    /\ worker' = [worker EXCEPT !.pc =
          CASE worker.pc = "l205" -> (IF worker.rc = 0 THEN "l209" ELSE "l226")
            [] worker.pc = "l209" -> "l210"
            [] OTHER -> "l213"]
    /\ UNCHANGED <<call, queue, scheduler_running, nsubmit, httpVars, launcher, nlaunch,
                   ud, sc, nruns, fsVars>>

\* lines 213-222: validate the output file: return True, or raise.
WorkerValidate ==
    /\ worker.pc = "l213"
    /\ worker' = IF output_file_valid(data_file)
                    THEN [worker EXCEPT !.pc = "l240", !.ret = "True"]
                    ELSE [worker EXCEPT !.pc = "l234"]
    /\ UNCHANGED <<call, refresh_status, queue, scheduler_running, nsubmit, httpVars,
                   launcher, nlaunch, ud, sc, nruns, fsVars>>

\* lines 224-227, 229-233, 234-238: set last_error, return False.
WorkerError ==
    /\ worker.pc \in {"l226", "l229", "l234"}
    /\ refresh_status' = [refresh_status EXCEPT !.last_error =
          CASE worker.pc = "l226" -> "Update script failed with code"
            [] worker.pc = "l229" -> "Data update timed out after 30 minutes"
            [] OTHER -> "Data update error"]
    /\ worker' = [worker EXCEPT !.pc = "l240", !.ret = "False"]
    /\ ud' = IF worker.pc = "l229" THEN [ud EXCEPT !["app"] = UdNone] ELSE ud
    /\ UNCHANGED <<call, queue, scheduler_running, nsubmit, httpVars, launcher, nlaunch,
                   sc, nruns, fsVars>>

\* lines 239-241: finally; then the function returns and the worker thread is
\* free for the next work item.
WorkerFinally ==
    /\ worker.pc \in {"l240", "l241"}
    /\ refresh_status' = IF worker.pc = "l240"
                            THEN finally_is_running(refresh_status)
                            ELSE finally_progress(refresh_status)
    /\ worker' = IF worker.pc = "l240" THEN [worker EXCEPT !.pc = "l241"]
                                       ELSE WorkerIdle
    /\ UNCHANGED <<call, queue, scheduler_running, nsubmit, httpVars, launcher, nlaunch,
                   ud, sc, nruns, fsVars>>

WorkerStep ==
    \/ WorkerTake \/ WorkerBegin \/ WorkerSpawn \/ WorkerReap \/ WorkerTimeout
    \/ WorkerProgress \/ WorkerValidate \/ WorkerError \/ WorkerFinally

-----------------------------------------------------------------------------
(* app.py: triggers *)

\* lines 357-375: start the scheduler; run the initial scrape if no data
\* file exists.
init_scheduler ==
    /\ ~scheduler_running
    /\ scheduler_running' = TRUE
    /\ IF ~data_file.exists THEN submit ELSE UNCHANGED <<queue, nsubmit>>
    /\ UNCHANGED <<call, refresh_status, worker, httpVars, launcher, nlaunch, ud, sc,
                   nruns, fsVars>>

\* lines 243-249: the interval job.
scheduled_scraper_job ==
    /\ scheduler_running
    /\ IF ~already_running(refresh_status) THEN submit ELSE UNCHANGED <<queue, nsubmit>>
    /\ UNCHANGED <<call, refresh_status, worker, scheduler_running, httpVars, launcher,
                   nlaunch, ud, sc, nruns, fsVars>>

-----------------------------------------------------------------------------
(* app.py: HTTP handlers. One request is handled at a time; the response a   *)
(* handler has built is sent in the next step.                               *)

HttpIdle == [pc |-> "idle"]
Responded == [pc |-> "responded"]
NoResp == [ep |-> "none"]

\* POST /api/refresh, line 280: the guard; lines 289-292: submit and sleep.
refresh_data ==
    /\ http.pc = "idle"
    /\ IF already_running(refresh_status)
          THEN /\ http' = [pc |-> "already"]
               /\ UNCHANGED <<queue, nsubmit>>
          ELSE /\ http' = [pc |-> "started"]
               /\ submit
    /\ UNCHANGED <<call, refresh_status, worker, scheduler_running, resp, launcher, nlaunch,
                   ud, sc, nruns, fsVars>>

\* lines 281-286 and 294-299: the response, with the progress read now.
refresh_data_response ==
    /\ http.pc \in {"already", "started"}
    /\ resp' = [ep |-> "refresh",
                status |-> IF http.pc = "already" THEN "already_running" ELSE "started",
                progress |-> refresh_status.progress]
    /\ http' = Responded
    /\ UNCHANGED <<call, appVars, launcher, nlaunch, ud, sc, nruns, fsVars>>

\* GET /api/refresh/status, lines 309-320.
refresh_status_endpoint ==
    /\ http.pc = "idle"
    /\ resp' = [ep |-> "status",
                is_running |-> refresh_status.is_running,
                progress |-> refresh_status.progress,
                last_refresh |-> refresh_status.last_refresh,
                last_error |-> refresh_status.last_error]
    /\ http' = Responded
    /\ UNCHANGED <<call, appVars, launcher, nlaunch, ud, sc, nruns, fsVars>>

\* What load_and_process_data meets at lines 117-122, once line 109 found
\* the file: it is gone, not parsable, an empty list, or a corpus.
observe(file) ==
    CASE ~file.exists -> "vanished"
      [] ~file.complete -> "unparsable"
      [] file.corpus = <<>> -> "empty"
      [] OTHER -> "ok"

\* The body of the try block, lines 102-180: the value returned or the
\* exception raised.
load_body(obs) ==
    CASE obs = "missing" -> "None"
      [] obs = "vanished" -> "FileNotFoundError"
      [] obs = "unparsable" -> "JSONDecodeError"
      [] obs = "empty" -> "None"
      [] OTHER -> "result"

Exceptions == {"FileNotFoundError", "JSONDecodeError"}

\* A handler that catches FileNotFoundError only.
except_FileNotFoundError(v) == IF v = "FileNotFoundError" THEN "None" ELSE v

\* lines 182-184: except Exception: log, return None.
except_Exception(v) == IF v \in Exceptions THEN "None" ELSE v

load_and_process_data(obs) == except_Exception(load_body(obs))

\* GET /api/data, lines 102-115: look for the data file.
load_exists ==
    /\ http.pc = "idle"
    /\ IF data_file.exists
          THEN /\ http' = [pc |-> "found"]
               /\ resp' = resp
          ELSE /\ http' = Responded
               /\ resp' = [ep |-> "data", obs |-> "missing",
                           ret |-> load_and_process_data("missing")]
    /\ UNCHANGED <<call, appVars, launcher, nlaunch, ud, sc, nruns, fsVars>>

\* lines 117-184: open, json.load and aggregate.
load_read ==
    /\ http.pc = "found"
    /\ http' = Responded
    /\ resp' = [ep |-> "data", obs |-> observe(data_file),
                ret |-> load_and_process_data(observe(data_file))]
    /\ UNCHANGED <<call, appVars, launcher, nlaunch, ud, sc, nruns, fsVars>>

\* The response is sent and the handler thread is free.
send_response ==
    /\ http.pc = "responded"
    /\ http' = HttpIdle
    /\ resp' = NoResp
    /\ UNCHANGED <<call, appVars, launcher, nlaunch, ud, sc, nruns, fsVars>>

-----------------------------------------------------------------------------
(* Specifications *)

\* No function is singled out for evaluation.
NoCall == [fn |-> "none"]

\* The data file present before the first run, if any, was put there whole.
Init ==
    /\ refresh_status = refresh_status_init
    /\ queue = 0
    /\ worker = WorkerIdle
    /\ scheduler_running = FALSE
    /\ nsubmit = 0
    /\ http = HttpIdle
    /\ resp = NoResp
    /\ launcher = "none"
    /\ nlaunch = 0
    /\ ud = [l \in Launchers |-> UdNone]
    /\ sc = [r \in Runs |-> ScNone]
    /\ nruns = 0
    /\ data_file \in {NoFile} \cup {Snapshot(0, c) : c \in Corpora \ {<<>>}}
    /\ backups = [r \in Runs |-> NoFile]
    /\ metadata = NoMetadata
    /\ call = NoCall

\* update_data.py under a launcher whose equal timeout expires first: the
\* handler of its own TimeoutExpired (UdTimeout) is never reached.
UdStepSupervised(l) ==
    \/ UdBegin(l) \/ UdScraperOk(l) \/ UdScraperFailed(l)

UdStep(l) ==
    \/ UdStepSupervised(l) \/ UdTimeout(l)

ScStep(r) ==
    \/ ScMain(r) \/ ScCrash(r) \/ ScWriteDone(r) \/ ScWriteError(r)

HttpStep ==
    \/ refresh_data \/ refresh_data_response \/ refresh_status_endpoint
    \/ load_exists \/ load_read

\* lines 380-385: app.run is called once init_scheduler has returned.
serving == scheduler_running

\* The Flask process app.py with the pipeline it starts.
AppStep ==
    \/ WorkerStep
    \/ init_scheduler
    \/ scheduled_scraper_job
    \/ serving /\ HttpStep

ExtStep ==
    \/ run_scraper \/ run_scraper_done \/ run_scraper_timeout
    \/ run_scraper_timeout_logged
    \/ update_data_main \/ update_data_exit

\* The whole deployment: app.py, scheduler.py and direct runs of
\* update_data.py side by side.
Next ==
    \/ send_response
    \/ /\ http.pc # "responded"
       /\ \/ AppStep
          \/ ExtStep
          \/ \E l \in Launchers : UdStep(l)
          \/ \E r \in Runs : ScStep(r)

Spec == Init /\ [][Next]_vars

\* app.py alone: no external launcher runs beside it.
NextApp ==
    \/ send_response
    \/ /\ http.pc # "responded"
       /\ \/ AppStep
          \/ UdStepSupervised("app")
          \/ \E r \in Runs : ScStep(r)

SpecApp == Init /\ [][NextApp]_vars

\* The worker thread and the update_data.py process it waits for are
\* scheduled; the handler thread sends its response. Nothing is assumed of
\* reddit_scrapper.py, which may hang: the worker's timeout covers that.
FairSpecApp ==
    /\ SpecApp
    /\ WF_vars(WorkerStep)
    /\ WF_vars(UdStepSupervised("app"))
    /\ WF_vars(send_response)

-----------------------------------------------------------------------------
(* A function evaluated on its own: every other part of the system is idle *)

\* The system at rest, with no data file.
AtRest ==
    /\ refresh_status = refresh_status_init
    /\ queue = 0
    /\ worker = WorkerIdle
    /\ scheduler_running = FALSE
    /\ nsubmit = 0
    /\ http = HttpIdle
    /\ resp = NoResp
    /\ launcher = "none"
    /\ nlaunch = 0
    /\ ud = [l \in Launchers |-> UdNone]
    /\ sc = [r \in Runs |-> ScNone]
    /\ nruns = 0
    /\ data_file = NoFile
    /\ backups = [r \in Runs |-> NoFile]
    /\ metadata = NoMetadata

restVars == <<refresh_status, queue, worker, scheduler_running, nsubmit, http, resp,
              launcher, nlaunch, ud, sc, nruns, data_file, backups, metadata>>

\* The sequences over S of length at most n.
SeqUpTo(S, n) == UNION {[1..k -> S] : k \in 0..n}

\* The sequence s without the later occurrences of its elements.
unique(s) ==
    LET firsts == SelectSeq([i \in 1..Len(s) |-> i],
                            LAMBDA i : \A j \in 1..(i - 1) : s[j] # s[i])
    IN [k \in 1..Len(firsts) |-> s[firsts[k]]]

\* Where a string is taken apart it is a sequence of characters.

\* reddit_scrapper.py line 334: ', '.join(extracted_tickers).
RECURSIVE join(_)
join(list) ==
    IF list = <<>> THEN <<>>
    ELSE IF Len(list) = 1 THEN list[1]
    ELSE list[1] \o <<",", " ">> \o join(Tail(list))

\* str.split(',').
RECURSIVE split(_)
split(str) ==
    IF \A i \in 1..Len(str) : str[i] # ","
        THEN <<str>>
        ELSE LET i == CHOOSE i \in 1..Len(str) :
                          /\ str[i] = ","
                          /\ \A j \in 1..(i - 1) : str[j] # ","
             IN <<SubSeq(str, 1, i - 1)>> \o split(SubSeq(str, i + 1, Len(str)))

\* str.strip().
RECURSIVE strip(_)
strip(str) ==
    IF str = <<>> THEN <<>>
    ELSE IF Head(str) = " " THEN strip(Tail(str))
    ELSE IF str[Len(str)] = " " THEN strip(SubSeq(str, 1, Len(str) - 1))
    ELSE str

\* line 133: [t.strip() for t in str(row['tickers']).split(',') if t.strip()]
ticker_list(str) ==
    LET parts == split(str)
        stripped == [i \in 1..Len(parts) |-> strip(parts[i])]
    IN SelectSeq(stripped, LAMBDA t : t # <<>>)

-----------------------------------------------------------------------------
(* reddit_scrapper.py: extract_and_validate_tickers *)

\* Longest comment text, in words.
MaxWords == 3

\* The words of a comment text; the empty sequence is the empty (or None)
\* text.
Words == {"$abc", "ABC", "DD", "XYZ", "the"}
Texts == SeqUpTo(Words, MaxWords)

\* lines 45-49.
excluded_tickers ==
    {"A", "I", "GO", "ON", "IT", "BE", "DD", "CEO", "PR", "USA", "FOR",
     "NOW", "YOLO", "THE", "GAIN", "LOSS", "EPS", "PE", "BUY", "SELL",
     "HOLD", "ALL", "ARE", "CAN", "BIG", "TOP", "EOD", "PM", "AH"}

\* load_valid_tickers: the upper-cased symbols of the file, or the empty set
\* when the file is missing or invalid.
Catalogs == { {}, {"ABC"}, {"ABC", "DD", "XYZ"} }

\* str.upper on the symbols that occur.
upper(t) == CASE t = "abc" -> "ABC" [] t = "the" -> "THE" [] OTHER -> t

\* reticker's TickerExtractor.extract: a prefixed word in any case and a bare
\* upper-case word are matches; the matches are returned without the prefix,
\* upper-cased, each once, in the order of the text.
ticker_match(w) == CASE w = "$abc" -> "abc" [] w = "the" -> "" [] OTHER -> w

RECURSIVE matches(_)
matches(text) ==
    IF text = <<>> THEN <<>>
    ELSE LET m == ticker_match(Head(text))
         IN IF m = "" THEN matches(Tail(text))
                      ELSE <<upper(m)>> \o matches(Tail(text))

extract(text) == unique(matches(text))

\* lines 121-130: skip the excluded symbols, keep those of the catalog.
RECURSIVE validate(_, _)
validate(extracted_tickers, valid_tickers) ==
    IF extracted_tickers = <<>> THEN <<>>
    ELSE LET ticker_upper == upper(Head(extracted_tickers))
             rest == validate(Tail(extracted_tickers), valid_tickers)
         IN IF ticker_upper \in excluded_tickers THEN rest
            ELSE IF ticker_upper \in valid_tickers THEN <<ticker_upper>> \o rest
            ELSE rest

\* lines 99-146. raises: the extractor raises, and the handler of lines
\* 144-146 returns the empty list.
extract_and_validate_tickers(text, valid_tickers, raises) ==
    IF text = <<>> THEN <<>>
    ELSE IF raises THEN <<>>
    ELSE IF valid_tickers = {}
        THEN [i \in 1..Len(extract(text)) |-> upper(extract(text)[i])]
        ELSE unique(validate(extract(text), valid_tickers))

\* lines 102-103: the warning of the degraded mode.
degraded_warning(text, valid_tickers) == text # <<>> /\ valid_tickers = {}

InitExtract ==
    /\ AtRest
    /\ call \in [fn : {"extract_and_validate_tickers"}, pc : {"called"},
                 text : Texts, valid_tickers : Catalogs, raises : BOOLEAN,
                 warned : {FALSE}, ret : {<<>>}]

ExtractReturns ==
    /\ call.fn = "extract_and_validate_tickers"
    /\ call.pc = "called"
    /\ call' = [call EXCEPT
            !.pc = "returned",
            !.warned = degraded_warning(call.text, call.valid_tickers),
            !.ret = extract_and_validate_tickers(call.text, call.valid_tickers,
                                                 call.raises)]
    /\ UNCHANGED restVars

SpecExtract == InitExtract /\ [][ExtractReturns]_vars

-----------------------------------------------------------------------------
(* reddit_scrapper.py: get_user_info, should_filter_comment and the loop of *)
(* get_all_thread_comments                                                  *)

\* Most comments in a thread.
MaxComments == 2

\* main, lines 453-454: the policy the scraper is built with.
MIN_COMMENT_KARMA == 100
MIN_ACCOUNT_AGE_DAYS == 30

Policies ==
    { [min_comment_karma |-> MIN_COMMENT_KARMA,
       min_account_age_days |-> MIN_ACCOUNT_AGE_DAYS],
      [min_comment_karma |-> 0, min_account_age_days |-> 0] }

\* What Reddit holds about an author: a profile, or the lookup raises.
Profiles ==
    [found : {TRUE},
     comment_karma : {MIN_COMMENT_KARMA - 1, MIN_COMMENT_KARMA},
     link_karma : {0, 5},
     account_age_days : {MIN_ACCOUNT_AGE_DAYS - 1, MIN_ACCOUNT_AGE_DAYS}]
Throws == [found |-> FALSE, comment_karma |-> 0, link_karma |-> 0,
           account_age_days |-> 0]

\* comment.body and whether the extractor raises on it: no text, or a text
\* with a prefixed word, an excluded word and a catalog symbol.
Bodies ==
    { [body |-> <<>>, raises |-> FALSE] }
    \cup [body : {<<"$abc", "DD", "XYZ">>}, raises : BOOLEAN]

\* The catalog the scraper was built with: none loaded, or one.
ScraperCatalogs == { {}, {"ABC", "DD", "XYZ"} }

\* A comment of the thread: its author ("[deleted]" when comment.author is
\* None, line 302), what the lookup of the author gives, whether reading
\* the comment's fields raises, and its text.
Authors ==
    { [author |-> "[deleted]", profile |-> Throws, field_error |-> FALSE],
      [author |-> "ghost123", profile |-> Throws, field_error |-> FALSE] }
    \cup [author : {"alice"}, profile : Profiles, field_error : {FALSE}]
    \cup { [author |-> "alice",
            profile |-> [found |-> TRUE,
                         comment_karma |-> MIN_COMMENT_KARMA,
                         link_karma |-> 5,
                         account_age_days |-> MIN_ACCOUNT_AGE_DAYS],
            field_error |-> TRUE] }

ThreadComments ==
    { [author |-> a.author, profile |-> a.profile, field_error |-> a.field_error,
       body |-> b.body, raises |-> b.raises] : a \in Authors, b \in Bodies }

\* lines 182-188 and 209-215: the record of an author that does not exist.
no_user(username) ==
    [username |-> username, comment_karma |-> 0, account_age_days |-> 0,
     exists |-> FALSE]

\* A handler that reports the author as existing.
lookup_failed_exists(username) == [no_user(username) EXCEPT !.exists = TRUE]

\* lines 207-215: except Exception: log, return the record of a missing user.
lookup_failed(username) == no_user(username)

\* A total that leaves the link karma out.
total_karma_comment_only(profile) == profile.comment_karma

\* line 201.
total_karma(profile) == profile.comment_karma + profile.link_karma

\* get_user_info, lines 180-215, and the number of lookups it made. The
\* record of a missing user has no link_karma and no total_karma key.
get_user_info(username, profile) ==
    IF username = "[deleted]"
        THEN [user_info |-> no_user(username), lookups |-> 0]
    ELSE IF ~profile.found
        THEN [user_info |-> lookup_failed(username), lookups |-> 1]
    ELSE [user_info |-> [username |-> username,
                         comment_karma |-> profile.comment_karma,
                         link_karma |-> profile.link_karma,
                         total_karma |-> total_karma(profile),
                         account_age_days |-> profile.account_age_days,
                         exists |-> TRUE],
          lookups |-> 1]

\* dict.get(key, default), lines 328-329.
get(d, key, default) == IF key \in DOMAIN d THEN d[key] ELSE default

\* The characters of a symbol.
chars(t) ==
    CASE t = "ABC" -> <<"A", "B", "C">>
      [] t = "DD" -> <<"D", "D">>
      [] t = "XYZ" -> <<"X", "Y", "Z">>
      [] OTHER -> <<t>>

\* lines 316-336: the record of a comment, identified by its position in the
\* thread.
comment_data(id, author_name, user_info, extracted_tickers) ==
    [id |-> id,
     author |-> author_name,
     author_comment_karma |-> user_info.comment_karma,
     author_link_karma |-> get(user_info, "link_karma", 0),
     author_total_karma |-> get(user_info, "total_karma", 0),
     author_exists |-> user_info.exists,
     tickers |-> join([k \in 1..Len(extracted_tickers) |->
                          chars(extracted_tickers[k])]),
     ticker_count |-> Len(extracted_tickers)]

\* Every record goes to the list of the comments kept.
filtered_append_always(filtered_comments, record, filtered) ==
    Append(filtered_comments, record)

\* lines 339-340 and 352-353: the record is appended to one of the lists.
filtered_append(filtered_comments, record, filtered) ==
    IF filtered THEN filtered_comments ELSE Append(filtered_comments, record)

filtered_out_append(filtered_out_comments, record, filtered) ==
    IF filtered THEN Append(filtered_out_comments, record) ELSE filtered_out_comments

\* A filter that looks at the karma only.
should_filter_karma_only(user_info, policy) ==
    user_info.comment_karma < policy.min_comment_karma

\* should_filter_comment, lines 227-236.
should_filter_comment(user_info, policy) ==
    IF ~user_info.exists THEN TRUE
    ELSE IF user_info.comment_karma < policy.min_comment_karma THEN TRUE
    ELSE IF user_info.account_age_days < policy.min_account_age_days THEN TRUE
    ELSE FALSE

\* lines 343-349: the reasons logged for a comment that is filtered out.
reason(user_info, policy) ==
    (IF ~user_info.exists THEN {"deleted/suspended account"} ELSE {})
    \cup (IF user_info.comment_karma < policy.min_comment_karma
             THEN {"low karma"} ELSE {})
    \cup (IF user_info.account_age_days < policy.min_account_age_days
             THEN {"new account"} ELSE {})

InitComments ==
    /\ AtRest
    /\ call \in [fn : {"get_all_thread_comments"}, pc : {"loop"},
                 comments : SeqUpTo(ThreadComments, MaxComments),
                 policy : Policies, valid_tickers : ScraperCatalogs, i : {1},
                 lookups : {<<>>}, filtered_comments : {<<>>},
                 filtered_out_comments : {<<>>}, logged : {<<>>}]

\* One iteration of the loop, lines 297-353. An exception raised while the
\* record is built (lines 316-336) is caught nowhere: it leaves the loop and
\* the function.
ProcessComment ==
    /\ call.fn = "get_all_thread_comments"
    /\ call.pc = "loop"
    /\ call.i <= Len(call.comments)
    /\ LET comment == call.comments[call.i]
           got == get_user_info(comment.author, comment.profile)
           user_info == got.user_info
           extracted_tickers ==
               extract_and_validate_tickers(comment.body, call.valid_tickers,
                                            comment.raises)
           record == comment_data(call.i, comment.author, user_info,
                                  extracted_tickers)
           filtered == should_filter_comment(user_info, call.policy)
       IN
       IF comment.field_error
          THEN call' = [call EXCEPT !.pc = "raised",
                                    !.lookups = Append(@, got.lookups)]
          ELSE call' = [call EXCEPT
                  !.i = @ + 1,
                  !.lookups = Append(@, got.lookups),
                  !.filtered_comments = filtered_append(@, record, filtered),
                  !.filtered_out_comments = filtered_out_append(@, record, filtered),
                  !.logged = IF filtered
                                THEN Append(@, [id |-> call.i,
                                                reason |-> reason(user_info, call.policy)])
                                ELSE @]
    /\ UNCHANGED restVars

\* line 372: return filtered_comments, filtered_out_comments.
CommentsReturn ==
    /\ call.fn = "get_all_thread_comments"
    /\ call.pc = "loop"
    /\ call.i > Len(call.comments)
    /\ call' = [call EXCEPT !.pc = "returned"]
    /\ UNCHANGED restVars

NextComments == ProcessComment \/ CommentsReturn

SpecComments == InitComments /\ [][NextComments]_vars

-----------------------------------------------------------------------------
(* app.py: the aggregation of load_and_process_data, lines 117-180 *)

\* Most comments of a snapshot, besides a block of equal comments.
MaxCorpus == 2

\* lines 137, 140, 146-148, 153, 158.
TOP_TICKERS == 10
TOP_COMMENTS == 20
WATCHLIST_MIN_TICKERS == 4
WATCHLIST_MIN_KARMA == 500
WATCHLIST_SIZE == 10
LATEST_TICKERS == 5
LATEST_COMMENTS == 5

\* Strings are sequences of characters.
ABC == <<"A", "B", "C">>
ABCD == <<"A", "B", "C", "D">>
XY == <<"X", "Y">>
Symbols == {ABC, ABCD, XY}
\* The symbols of a comment that mentions several tickers.
Pool == << <<"K">>, <<"L">>, <<"M">>, <<"N">> >>

\* case=False: characters are compared without their case.
lower(ch) ==
    CASE ch = "A" -> "a" [] ch = "B" -> "b" [] ch = "C" -> "c" [] ch = "D" -> "d"
      [] ch = "K" -> "k" [] ch = "L" -> "l" [] ch = "M" -> "m" [] ch = "N" -> "n"
      [] ch = "X" -> "x" [] ch = "Y" -> "y" [] OTHER -> ch

\* line 157: Series.str.contains(ticker, case=False): the pattern (letters
\* only) occurs somewhere in the string.
str_contains(str, pat) ==
    \E i \in 0..(Len(str) - Len(pat)) :
        \A j \in 1..Len(pat) : lower(str[i + j]) = lower(pat[j])

\* The first n elements: [:n] and DataFrame.head(n).
head(n, s) == SubSeq(s, 1, IF Len(s) < n THEN Len(s) ELSE n)

\* A stable sort of items by descending key: an item goes behind the items
\* whose key is not smaller.
RECURSIVE sorted_desc(_, _)
sorted_desc(items, key) ==
    IF items = <<>> THEN <<>>
    ELSE LET r == sorted_desc(SubSeq(items, 1, Len(items) - 1), key)
             x == items[Len(items)]
             p == Cardinality({j \in 1..Len(r) : key[r[j]] >= key[x]})
         IN SubSeq(r, 1, p) \o <<x>> \o SubSeq(r, p + 1, Len(r))

\* The items in their given order.
unsorted(items, key) == items

\* DataFrame.nlargest(n, column) with keep='first': the rows by descending
\* value, equal values in their original order.
largest_first(items, key) == sorted_desc(items, key)

nlargest(n, items, key) == head(n, largest_first(items, key))

\* DataFrame.sort_values(column, ascending=False) with the default
\* kind='quicksort', which is not a stable sort: numpy sorts partitions of at
\* most 16 elements by insertion, so that short columns come out in stable
\* order, and gives no order to equal keys of longer ones. For those, tie may
\* name a place at which two neighbours with equal keys come out exchanged.
sort_values(items, key, tie) ==
    LET r == sorted_desc(items, key)
    IN IF Len(items) > 16 /\ tie \in 1..(Len(r) - 1) /\ key[r[tie]] = key[r[tie + 1]]
          THEN [j \in 1..Len(r) |-> IF j = tie THEN r[tie + 1]
                                    ELSE IF j = tie + 1 THEN r[tie] ELSE r[j]]
          ELSE r

\* The places tie can name for a column of n rows; 0 names none.
Ties(n) == IF n > 16 THEN 0..(n - 1) ELSE {0}

\* df[mask]: the rows (by position) of df at which the boolean column mask
\* is true, in corpus order.
rows_where(df, mask) == SelectSeq([i \in 1..Len(df) |-> i], LAMBDA i : mask[i])

\* lines 128-135: every ticker of every row with a non-empty tickers field,
\* in order; ticker_mentions counts the occurrences of each.
RECURSIVE mentioned(_)
mentioned(df) ==
    IF df = <<>> THEN <<>>
    ELSE mentioned(SubSeq(df, 1, Len(df) - 1)) \o ticker_list(df[Len(df)].tickers)

ticker_mentions(df) ==
    LET all == mentioned(df)
        keys == unique(all)
    IN [k \in 1..Len(keys) |->
           [ticker |-> keys[k],
            count |-> Cardinality({j \in 1..Len(all) : all[j] = keys[k]})]]

\* line 137: sorted(..., key=count, reverse=True)[:10]; sorted is stable.
top_10_tickers(df) ==
    LET tm == ticker_mentions(df)
        order == sorted_desc([k \in 1..Len(tm) |-> k], [k \in 1..Len(tm) |-> tm[k].count])
    IN head(TOP_TICKERS, [j \in 1..Len(order) |-> tm[order[j]]])

\* lines 140-142.
top_20_comments(df) ==
    nlargest(TOP_COMMENTS, [i \in 1..Len(df) |-> i], [i \in 1..Len(df) |-> df[i].score])

\* lines 145-150.
watchlist_comments(df, tie) ==
    head(WATCHLIST_SIZE,
         sort_values(rows_where(df, [i \in 1..Len(df) |->
                                      /\ df[i].ticker_count >= WATCHLIST_MIN_TICKERS
                                      /\ df[i].author_total_karma >= WATCHLIST_MIN_KARMA]),
                     [i \in 1..Len(df) |-> df[i].score], tie))

\* lines 153-161.
latest_comments_by_ticker(df, tie) ==
    LET top_5_tickers == head(LATEST_TICKERS, top_10_tickers(df))
    IN [k \in 1..Len(top_5_tickers) |->
          [ticker |-> top_5_tickers[k].ticker,
           comments |->
              head(LATEST_COMMENTS,
                   sort_values(rows_where(df, [i \in 1..Len(df) |->
                                   str_contains(df[i].tickers, top_5_tickers[k].ticker)]),
                               [i \in 1..Len(df) |-> df[i].created_utc], tie))]]

\* lines 164-169.
summary_stats(df) ==
    [total_comments |-> Len(df),
     comments_with_tickers |-> Len(rows_where(df, [i \in 1..Len(df) |-> df[i].tickers # <<>>])),
     unique_tickers |-> Len(ticker_mentions(df))]

\* The value returned when there is nothing to aggregate: None.
NoResult ==
    [none |-> TRUE, top_10_tickers |-> <<>>, top_20_comments |-> <<>>,
     watchlist_comments |-> <<>>, latest_comments_by_ticker |-> <<>>,
     summary_stats |-> [total_comments |-> 0, comments_with_tickers |-> 0,
                        unique_tickers |-> 0]]

\* lines 122-180 on the list read from the snapshot.
aggregate(comments_data, tie) ==
    IF comments_data = <<>> THEN NoResult
    ELSE [none |-> FALSE,
          top_10_tickers |-> top_10_tickers(comments_data),
          top_20_comments |-> top_20_comments(comments_data),
          watchlist_comments |-> watchlist_comments(comments_data, tie),
          latest_comments_by_ticker |-> latest_comments_by_ticker(comments_data, tie),
          summary_stats |-> summary_stats(comments_data)]

\* Snapshot records as get_all_thread_comments builds them (lines 316-336):
\* ticker_count is the length of the ticker list that tickers joins.
\* Comments that differ in their tickers and their time:
TaggedComments ==
    { [tickers |-> join(l), ticker_count |-> Len(l), score |-> 1,
       created_utc |-> t, author_total_karma |-> WATCHLIST_MIN_KARMA] :
         l \in SeqUpTo(Symbols, 2), t \in {1, 2} }

\* Comments that differ in their score, ticker count and author karma:
ScoredComments ==
    { [tickers |-> join(SubSeq(Pool, 1, n)), ticker_count |-> n, score |-> sc0,
       created_utc |-> 1, author_total_karma |-> k] :
         n \in {WATCHLIST_MIN_TICKERS - 1, WATCHLIST_MIN_TICKERS},
         sc0 \in {1, 2, 3},
         k \in {WATCHLIST_MIN_KARMA - 1, WATCHLIST_MIN_KARMA} }

\* A block of n equal comments that qualify for the watchlist.
Block(n) ==
    [i \in 1..n |->
        [tickers |-> join(Pool), ticker_count |-> Len(Pool), score |-> 2,
         created_utc |-> 1, author_total_karma |-> WATCHLIST_MIN_KARMA]]

\* The snapshots aggregated: short ones, and shorter ones before or behind a
\* block that by itself fills the list of top comments.
Snapshots ==
    SeqUpTo(TaggedComments, MaxCorpus)
    \cup SeqUpTo(ScoredComments, MaxCorpus)
    \cup {s \o Block(TOP_COMMENTS) : s \in SeqUpTo(ScoredComments, MaxCorpus - 1)}
    \cup {Block(TOP_COMMENTS) \o s : s \in SeqUpTo(ScoredComments, MaxCorpus - 1)}

InitAggregate ==
    /\ AtRest
    /\ call \in [fn : {"load_and_process_data"}, pc : {"loaded"},
                 comments_data : Snapshots, ret : {NoResult}]

\* lines 122-180: the result for the list that json.load returned.
Aggregate ==
    /\ call.fn = "load_and_process_data"
    /\ call.pc = "loaded"
    /\ \E tie \in Ties(Len(call.comments_data)) :
          call' = [call EXCEPT !.pc = "returned",
                               !.ret = aggregate(call.comments_data, tie)]
    /\ UNCHANGED restVars

SpecAggregate == InitAggregate /\ [][Aggregate]_vars

-----------------------------------------------------------------------------
(* Claims *)

\* The pipeline runs in flight: update_data.py alive, or its
\* reddit_scrapper.py still collecting or writing.
LiveRuns ==
    {r \in Runs :
        \/ sc[r].pc \in {"collect", "write"}
        \/ \E l \in Launchers : ud[l].run = r /\ ud[l].pc \in {"l80", "wait"}}

\* C1: at most one collection run is in flight at any time, over every
\* interleaving of the scheduled trigger, POST /api/refresh, the initial
\* scrape, the scheduler.py job and the run timeouts.
C1_SingleFlight == Cardinality(LiveRuns) <= 1

\* The work items accepted by the executor and not finished yet.
Unfinished == queue + (IF worker.pc = "idle" THEN 0 ELSE 1)

\* C2: from the moment a trigger has been accepted (executor.submit called)
\* until that run has finished no further run is submitted: triggers that
\* overlap a run are rejected, never queued.
C2_NeverQueued == Unfinished <= 1

\* C3: a POST /api/refresh that finds is_running true takes the
\* already_running branch, answers with status already_running and the
\* progress value current at that moment, submits nothing, and leaves the
\* status record, the executor queue and the count of submitted runs as
\* they were.
C3_AlreadyRunning ==
    [][ /\ (http.pc = "idle" /\ http'.pc \in {"already", "started"}
                /\ refresh_status.is_running)
            => (http'.pc = "already"
                    /\ UNCHANGED <<refresh_status, queue, nsubmit, worker>>)
        /\ (http.pc = "already" /\ http'.pc # "already")
            => (/\ resp' = [ep |-> "refresh", status |-> "already_running",
                            progress |-> refresh_status.progress]
                /\ UNCHANGED <<refresh_status, queue, nsubmit, worker>>) ]_vars

\* An already_running answer carrying progress 25, given while the worker
\* waits for update_data.py and nothing is queued.
C3_Witness ==
    /\ resp.ep = "refresh"
    /\ resp.status = "already_running"
    /\ resp.progress = 25
    /\ worker.pc = "wait"
    /\ refresh_status.is_running
    /\ queue = 0

\* C4: every run of app.py's run_reddit_scraper that has started reaches its
\* end, whatever its outcome (True, non-zero exit code, timeout, invalid
\* output file, any other exception), and once it has returned is_running
\* is false: the worker is never idle with the flag set, and a worker inside
\* a run eventually is idle again with the flag cleared.
C4_RunTerminates ==
    /\ [](worker.pc = "idle" => ~refresh_status.is_running)
    /\ (worker.pc # "idle") ~> (worker.pc = "idle" /\ ~refresh_status.is_running)

\* A run that timed out is about to return, the flag cleared.
C4_Witness ==
    /\ worker.pc = "l241"
    /\ worker.ret = "False"
    /\ refresh_status.last_error = "Data update timed out after 30 minutes"
    /\ ~refresh_status.is_running

\* update_data.py's run_reddit_scraper has returned False without a timeout.
FailedRun(l) ==
    /\ ud[l].pc = "exit"
    /\ ud[l].branch \in {"not_created", "scraper_failed", "exception"}

\* C5: a run that started with a snapshot file and ends in a non-timeout
\* failure leaves the original snapshot at the target path when it returns.
C5_FailureRestores ==
    \A l \in Launchers :
        (FailedRun(l) /\ ud[l].orig.exists) => data_file = ud[l].orig

\* The run of update_data.py in slot l has ended by a timeout: its own, or its
\* launcher's.
TimedOutRun(l) ==
    \/ ud[l].pc = "killed"
    \/ ud[l].pc = "exit" /\ ud[l].branch = "timeout"

\* C6: after a run has exceeded the hard timeout, also one started through
\* app.py, no scraper process of it is running, the original snapshot is
\* back at the target path and data_metadata.json holds the failure record
\* of that run.
C6_TimeoutRestores ==
    \A l \in Launchers :
        TimedOutRun(l) =>
            /\ sc[ud[l].run].pc = "none"
            /\ ud[l].orig.exists => data_file = ud[l].orig
            /\ metadata.exists /\ metadata.run = ud[l].run /\ ~metadata.success

\* C7: a run is recorded as a success only if the target path holds a
\* non-empty corpus written by that run; then the backup made at its start is
\* gone and the record's counts are those of the snapshot at the target path.
C7_SuccessIsFresh ==
    \A l \in Launchers :
        (ud[l].pc = "exit" /\ ud[l].branch = "success") =>
            /\ data_file.exists /\ data_file.complete
            /\ data_file.writer = ud[l].run
            /\ data_file.corpus # <<>>
            /\ ~backups[ud[l].run].exists
            /\ metadata.exists /\ metadata.run = ud[l].run /\ metadata.success
            /\ metadata.counts = <<Len(data_file.corpus),
                                   comments_with_tickers(data_file.corpus)>>

\* C8: every run of update_data.py that has started has written its
\* metadata record when it ends, whatever the outcome, and in the record
\* error_message is non-null exactly when success is false.
C8_MetadataAlways ==
    \A l \in Launchers :
        (ud[l].pc \in {"exit", "killed"}) =>
            /\ metadata.exists
            /\ metadata.run = ud[l].run
            /\ (metadata.error_message # None) <=> ~metadata.success

\* C9: during a run that started from a complete snapshot, the target path
\* always holds a complete snapshot (the previous one or the new one), never
\* no file and never a partly written one.
C9_AtomicSupersede ==
    \A l \in Launchers :
        (ud[l].pc = "wait" /\ ud[l].orig.exists /\ ud[l].orig.complete) =>
            (data_file.exists /\ data_file.complete)

\* C10: load_and_process_data never raises: it returns the aggregation
\* result or None, and None whenever the data file is missing, has vanished
\* between the existence test and the open, or does not parse; and the status
\* endpoint can answer whenever the handler thread is free, at every point
\* of a run.
C10_LoadNeverRaises ==
    /\ resp.ep = "data" =>
        /\ resp.ret \in {"None", "result"}
        /\ resp.obs \in {"missing", "vanished", "unparsable"} => resp.ret = "None"
    /\ (serving /\ http.pc = "idle") => ENABLED refresh_status_endpoint

\* A read that met the file half written by the run in progress, and
\* returned None.
C10_Witness ==
    /\ resp.ep = "data"
    /\ resp.obs = "unparsable"
    /\ resp.ret = "None"
    /\ worker.pc = "wait"
    /\ sc[worker.run].pc = "write"

Returned(fn) == call.fn = fn /\ call.pc = "returned"

NoDuplicates(s) == \A i, j \in 1..Len(s) : s[i] = s[j] => i = j

\* C11: whatever the text and the catalog (the empty catalog of a failed load
\* included), the list extract_and_validate_tickers returns has no duplicate
\* and each of its elements is in the catalog and not in the exclusion set;
\* an empty text gives the empty list.
C11_ValidatedTickers ==
    Returned("extract_and_validate_tickers") =>
        /\ NoDuplicates(call.ret)
        /\ \A i \in 1..Len(call.ret) :
              call.ret[i] \in call.valid_tickers \ excluded_tickers
        /\ call.text = <<>> => call.ret = <<>>

\* C12: with an empty catalog, every symbol returned for a text is the
\* upper-case form of a candidate of the text, none is in the exclusion set,
\* and the degraded-mode warning has been logged.
C12_DegradedMode ==
    (Returned("extract_and_validate_tickers") /\ call.valid_tickers = {}
            /\ call.text # <<>> /\ ~call.raises) =>
        /\ \A i \in 1..Len(call.ret) :
              /\ \E j \in 1..Len(call.text) :
                    call.ret[i] = upper(ticker_match(call.text[j]))
              /\ call.ret[i] \notin excluded_tickers
        /\ call.warned

\* The comments of the thread that the loop has gone through.
Processed ==
    IF call.fn = "get_all_thread_comments" THEN 1..(call.i - 1) ELSE {}

Kept(k) ==
    \E j \in 1..Len(call.filtered_comments) : call.filtered_comments[j].id = k

Dropped(k) ==
    \E j \in 1..Len(call.filtered_out_comments) :
        call.filtered_out_comments[j].id = k

\* The author of comment k exists: a named author whose lookup succeeds.
AuthorExists(k) ==
    call.comments[k].author # "[deleted]" /\ call.comments[k].profile.found

\* C13: a processed comment is dropped exactly when its author does not
\* exist, or has less comment karma than the policy's minimum, or a younger
\* account than the policy's minimum; otherwise it is kept; and no lookup is
\* made for the author "[deleted]".
C13_FilterRule ==
    \A k \in Processed :
        LET c == call.comments[k]
            drop == \/ ~AuthorExists(k)
                    \/ c.profile.comment_karma < call.policy.min_comment_karma
                    \/ c.profile.account_age_days < call.policy.min_account_age_days
        IN /\ Dropped(k) <=> drop
           /\ Kept(k) <=> ~drop
           /\ c.author = "[deleted]" => call.lookups[k] = 0

\* A thread has been gone through in which one comment was kept and the
\* comment of a deleted author was dropped.
C13_Witness ==
    /\ Returned("get_all_thread_comments")
    /\ \E k \in Processed : Kept(k)
    /\ \E k \in Processed : call.comments[k].author = "[deleted]" /\ Dropped(k)

\* C14: when the lookup of a comment's author raises, one lookup has been
\* made for that comment, the comment is in the filtered-out list as one of
\* a non-existent author, "deleted/suspended account" is among the reasons
\* logged for it, and the loop has not stopped because of it.
C14_LookupFailure ==
    /\ \A k \in Processed :
          (call.comments[k].author # "[deleted]"
                /\ ~call.comments[k].profile.found) =>
             /\ call.lookups[k] = 1
             /\ \E j \in 1..Len(call.filtered_out_comments) :
                   /\ call.filtered_out_comments[j].id = k
                   /\ ~call.filtered_out_comments[j].author_exists
             /\ \E j \in 1..Len(call.logged) :
                   /\ call.logged[j].id = k
                   /\ "deleted/suspended account" \in call.logged[j].reason
    /\ (call.fn = "get_all_thread_comments" /\ call.pc = "raised") =>
          call.comments[call.i].field_error

\* The lookup failed for the first comment and the second comment has been
\* processed after it.
C14_Witness ==
    /\ Returned("get_all_thread_comments")
    /\ Len(call.comments) = 2
    /\ call.comments[1].author = "ghost123"
    /\ Dropped(1)
    /\ Kept(2)

\* C15: an error raised while one comment is processed stays with that
\* comment: the function does not raise, the comment is in the filtered-out
\* list with an "extraction error" annotation, and when the function returns
\* every comment of the thread is in one of the two lists.
C15_ErrorContained ==
    call.fn = "get_all_thread_comments" =>
        /\ call.pc # "raised"
        /\ \A k \in Processed : call.comments[k].field_error =>
              \E j \in 1..Len(call.logged) :
                  /\ call.logged[j].id = k
                  /\ "extraction error" \in call.logged[j].reason
        /\ call.pc = "returned" =>
              \A k \in 1..Len(call.comments) : Kept(k) \/ Dropped(k)

\* The snapshot that load_and_process_data has aggregated and what it
\* returned for it.
Aggregated == Returned("load_and_process_data") /\ call.comments_data # <<>>

Rows == 1..Len(call.comments_data)
Score(i) == call.comments_data[i].score
Min(a, b) == IF a < b THEN a ELSE b
Range(s) == {s[i] : i \in 1..Len(s)}

\* Ticker t is one of the tokens of the ticker list of row i.
Tagged(i, t) == t \in Range(ticker_list(call.comments_data[i].tickers))

SnapshotTickers == UNION {Range(ticker_list(call.comments_data[i].tickers)) : i \in Rows}

\* The mention count returned for ticker t.
MentionCount(t) ==
    LET e == {k \in 1..Len(call.ret.top_10_tickers) : call.ret.top_10_tickers[k].ticker = t}
    IN IF e = {} THEN 0 ELSE call.ret.top_10_tickers[CHOOSE k \in e : TRUE].count

\* C16: for every ticker of the snapshot the mention count returned is the
\* number of comments whose ticker list includes it (a comment that lists it
\* twice counts once), and unique_tickers is the number of distinct tickers.
C16_MentionCounts ==
    Aggregated =>
        /\ \A t \in SnapshotTickers :
              MentionCount(t) = Cardinality({i \in Rows : Tagged(i, t)})
        /\ call.ret.summary_stats.unique_tickers = Cardinality(SnapshotTickers)

\* v lists rows by descending score, rows of equal score in corpus order.
Ranked(v) ==
    \A a, b \in 1..Len(v) :
        a < b => \/ Score(v[a]) > Score(v[b])
                 \/ Score(v[a]) = Score(v[b]) /\ v[a] < v[b]

WatchlistCandidates ==
    {i \in Rows : /\ call.comments_data[i].ticker_count >= WATCHLIST_MIN_TICKERS
                  /\ call.comments_data[i].author_total_karma >= WATCHLIST_MIN_KARMA}

\* C17: the watchlist holds the highest-scoring comments, at most 10, among
\* those that meet both thresholds: each entry meets them, the entries are in
\* descending score order with equal scores in corpus order, and no
\* candidate left out has a higher score than an entry.
C17_Watchlist ==
    Aggregated =>
        LET w == call.ret.watchlist_comments IN
        /\ Len(w) = Min(WATCHLIST_SIZE, Cardinality(WatchlistCandidates))
        /\ Range(w) \subseteq WatchlistCandidates
        /\ Ranked(w)
        /\ \A c \in WatchlistCandidates \ Range(w) :
              \A a \in 1..Len(w) : Score(c) <= Score(w[a])

C19_LatestByTicker ==
    Aggregated =>
        LET l == call.ret.latest_comments_by_ticker IN
        /\ Len(l) = Min(LATEST_TICKERS, Cardinality(SnapshotTickers))
        /\ \A k \in 1..Len(l) :
              LET v == l[k].comments
                  tagged == {i \in Rows : Tagged(i, l[k].ticker)}
              IN /\ Range(v) \subseteq tagged
                 /\ Len(v) = Min(LATEST_COMMENTS, Cardinality(tagged))
                 /\ \A a, b \in 1..Len(v) :
                       a < b => /\ v[a] # v[b]
                                /\ call.comments_data[v[a]].created_utc
                                      >= call.comments_data[v[b]].created_utc
                 /\ \A c \in tagged \ Range(v) : \A a \in 1..Len(v) :
                       call.comments_data[c].created_utc
                           <= call.comments_data[v[a]].created_utc

\* C20: for a snapshot that holds the empty list, load_and_process_data
\* returns a result, not None: its counts are zero and its lists are empty.
C20_EmptyCorpus ==
    (Returned("load_and_process_data") /\ call.comments_data = <<>>) =>
        /\ ~call.ret.none
        /\ call.ret.summary_stats = [total_comments |-> 0,
                                     comments_with_tickers |-> 0,
                                     unique_tickers |-> 0]
        /\ call.ret.top_10_tickers = <<>>
        /\ call.ret.top_20_comments = <<>>
        /\ call.ret.watchlist_comments = <<>>
        /\ call.ret.latest_comments_by_ticker = <<>>

\* C21: a reader of the status record never meets an intermediate combination
\* of its fields: GET /api/refresh/status never reads is_running = false
\* together with a non-zero progress, nor is_running = true together with a
\* last_error that the run in progress has not set (the error of the run
\* before it).
C21_WholeTransitions ==
    [][refresh_status_endpoint =>
          /\ ~(~refresh_status.is_running /\ refresh_status.progress # 0)
          /\ ~(/\ refresh_status.is_running
               /\ refresh_status.last_error # None
               /\ worker.pc \in {"l192", "l193"})]_vars

\* C24: when run_reddit_scraper is about to return False, last_refresh is
\* not the time of this run and last_error is set; when it is about to return
\* True, last_error is None.
C24_LastRefreshOnSuccess ==
    worker.pc \in {"l240", "l241"} =>
        /\ worker.ret = "False" =>
              /\ worker.run # 0 => refresh_status.last_refresh # worker.run
              /\ refresh_status.last_error # None
        /\ worker.ret = "True" => refresh_status.last_error = None

\* The records that get_all_thread_comments has built so far.
Records ==
    IF call.fn = "get_all_thread_comments"
        THEN Range(call.filtered_comments) \cup Range(call.filtered_out_comments)
        ELSE {}

\* C22: in every record built, kept or filtered out, ticker_count is the
\* number of symbols of the tickers field; the total karma of an author that
\* exists is the sum of the comment karma and the link karma; the three
\* karma fields of an author that does not exist are 0; and the tickers of a
\* record depend on the comment's text only, not on its author: two comments
\* with the same text have the same tickers.
C22_RecordInvariants ==
    /\ \A r \in Records :
          /\ r.ticker_count = Len(ticker_list(r.tickers))
          /\ r.author_exists =>
                r.author_total_karma = r.author_comment_karma + r.author_link_karma
          /\ ~r.author_exists =>
                /\ r.author_comment_karma = 0
                /\ r.author_link_karma = 0
                /\ r.author_total_karma = 0
    /\ \A r1, r2 \in Records :
          (/\ call.comments[r1.id].body = call.comments[r2.id].body
           /\ call.comments[r1.id].raises = call.comments[r2.id].raises)
             => r1.tickers = r2.tickers

\* A thread of two comments, in each of which two symbols are found: the
\* one by an author with link karma is kept and the one by an author that
\* does not exist is filtered out with its two tickers.
C22_Witness ==
    /\ Returned("get_all_thread_comments")
    /\ Len(call.filtered_comments) = 1
    /\ Len(call.filtered_out_comments) = 1
    /\ call.filtered_comments[1].author_link_karma > 0
    /\ call.filtered_comments[1].ticker_count = 2
    /\ ~call.filtered_out_comments[1].author_exists
    /\ call.filtered_out_comments[1].ticker_count = 2

\* The ids of a list of records grow along the list.
InThreadOrder(list) ==
    \A a, b \in 1..Len(list) : a < b => list[a].id < list[b].id

\* C23: every comment the loop has gone through is in exactly one of the two
\* lists: the lengths of the lists add up to the number of comments
\* processed (when the function returns, to the number of comments of the
\* thread), no id is in both lists, and each list is in the order of the
\* thread.
C23_OneListEach ==
    (call.fn = "get_all_thread_comments" /\ call.pc \in {"loop", "returned"}) =>
        /\ Len(call.filtered_comments) + Len(call.filtered_out_comments)
              = Cardinality(Processed)
        /\ call.pc = "returned" => Cardinality(Processed) = Len(call.comments)
        /\ \A k \in Processed : (Kept(k) \/ Dropped(k)) /\ ~(Kept(k) /\ Dropped(k))
        /\ InThreadOrder(call.filtered_comments)
        /\ InThreadOrder(call.filtered_out_comments)

\* A thread of two comments has been gone through: the first was kept and
\* the second, by an author below the thresholds, was filtered out.
C23_Witness ==
    /\ Returned("get_all_thread_comments")
    /\ Len(call.comments) = 2
    /\ Kept(1)
    /\ Dropped(2)
    /\ call.comments[2].author = "alice"

====
